---- MODULE Spec2Model ----
(***************************************************************************)
(* The streaming chat-completion engine of react-native-gen-ui:            *)
(* ChatCompletion (src/openai/chat-completion.ts), one session per         *)
(* request, its server-sent-event handler, the tool-call cycle and the     *)
(* recursive continuation.                                                 *)
(*                                                                         *)
(* JavaScript runs every handler to completion, so one action is one       *)
(* macro-task: a 'message' event with the synchronous part of the handler  *)
(* (up to the first await), the resumption after `await generator.next()`, *)
(* or a wake-up of the `sleep(100)` poll loop.                             *)
(*                                                                         *)
(* Strings are TLA+ strings, `+` is \o.  A value that may be null or       *)
(* absent in JSON is a record field that is absent.  The caller supplies   *)
(* all three callbacks, as useChat does.                                   *)
(***************************************************************************)
EXTENDS Integers, Sequences, FiniteSets, TLC

(***************************************************************************)
(* Bounds of the model.                                                    *)
(***************************************************************************)
\* frames delivered, over all sessions, in a behaviour of Spec
MaxFrames == 4
\* frames delivered, over all sessions, in a behaviour of SpecChain
MaxChainFrames == 7
\* steps a tool's producer takes before it is done
MaxPulls == 2
\* frames delivered, over all sessions, in a behaviour of SpecTool
MaxToolFrames == 5
\* events delivered, over all sessions, in a behaviour of SpecError
MaxErrorEvents == 5
\* frames delivered, over all sessions, in a behaviour of SpecHook
MaxHookFrames == 3
\* frames the servers send in a behaviour of SpecDecode
MaxDecodeFrames == 3
\* frames delivered, over all sessions, in a behaviour of SpecLive
MaxLiveFrames == 4
\* events delivered, over all sessions, in a behaviour of SpecAbort
MaxAbortEvents == 5
\* frames delivered, over all sessions, in a behaviour of SpecLate
MaxLateFrames == 4
\* frames and transport errors delivered, over all sessions, in a behaviour
\* of SpecOverlap
MaxOverlapEvents == 3
\* messages the user submits in a behaviour of SpecOverlap
MaxOverlapSubmits == 2
\* messages the user submits in a behaviour of SpecHook
MaxSubmits == 1

(***************************************************************************)
(* Values                                                                  *)
(***************************************************************************)
\* JavaScript null, for the fields that hold an object or null
Null == [null |-> TRUE]

\* the value of a producer step that carries nothing
Undefined == [undefined |-> TRUE]

\* a React element
Element(type) == [typeof |-> "react.element", type |-> type]

IsValidElement(v) == "typeof" \in DOMAIN v /\ v.typeof = "react.element"

AssistantMessage(content) == [role |-> "assistant", content |-> content]

FunctionMessage(name, content) ==
    [role |-> "function", name |-> name, content |-> content]

UserMessage(content) == [role |-> "user", content |-> content]

\* JSON.stringify on the structured data a tool returns: objects {x: n}
JSONStringify(data) == "{\"x\":" \o ToString(data.x) \o "}"

\* JSON.parse on an accumulated arguments text.  Of the texts the argument
\* fragments below can form, exactly these two are JSON; on any other text
\* JSON.parse throws a SyntaxError.
JSONParse(text) ==
    CASE text = "{\"x\":1}" -> [ok |-> TRUE, value |-> [x |-> 1]]
      [] text = "{}"        -> [ok |-> TRUE, value |-> <<>>]
      [] OTHER              -> [ok |-> FALSE]

\* (mutant) the arguments are not validated
SchemaAcceptsAnything(args) == TRUE

\* the declared tool's zod schema, z.object({x: z.number()}): parse(args)
\* throws unless args has a number x
SchemaAccepts(args) == "x" \in DOMAIN args

\* the request's tools: none declared (params.tools == null), or getWeather
NoTools == Null
DeclaredTools == [keys |-> {"getWeather"}]

\* the request's messages
InitialMessages == <<UserMessage("hi")>>

(***************************************************************************)
(* Frames: the 'message' events of the transport.  event.data is the       *)
(* terminator text, the empty text, absent, or a text that JSON.parse      *)
(* turns into `chunk`.                                                     *)
(***************************************************************************)
Terminator == [data |-> "[DONE]"]
EmptyFrame == [data |-> ""]
\* an event with no data
AbsentData == [type |-> "message"]
Chunk(c) == [data |-> "json", chunk |-> c]
Choice(reason, delta) == [finish_reason |-> reason, delta |-> delta]
One(reason, delta) == Chunk([choices |-> <<Choice(reason, delta)>>])

NoChoices == Chunk([choices |-> <<>>])
AbsentChoices == Chunk([id |-> "chatcmpl"])
FinishToolCalls == One("tool_calls", <<>>)
FinishStop == One("stop", <<>>)
TokenDelta(text) == One("null", [content |-> text])
ToolCallDelta(calls) == One("null", [tool_calls |-> calls])
NameDelta(n) == ToolCallDelta(<<[function |-> [name |-> n]]>>)
ArgsDelta(a) == ToolCallDelta(<<[function |-> [arguments |-> a]]>>)
BothDelta(n, a) == ToolCallDelta(<<[function |-> [name |-> n, arguments |-> a]]>>)
\* two entries in one frame
TwoCalls == ToolCallDelta(<<[function |-> [name |-> "get"]],
                            [function |-> [name |-> "Time", arguments |-> "{}"]]>>)
\* an entry with no function
BareCall == ToolCallDelta(<<[index |-> 0]>>)
UnknownFrame == One("null", <<>>)
LengthFrame == One("length", <<>>)
\* a finish frame that also carries a delta
StopWithText == One("stop", [content |-> "b"])
ToolCallsWithDelta ==
    One("tool_calls", [tool_calls |-> <<[function |-> [name |-> "get"]]>>])
\* a text delta and a tool-call delta in one frame
TextAndCall ==
    One("null", [content |-> "a", tool_calls |-> <<[function |-> [name |-> "get"]]>>])

Frames ==
    { Terminator, EmptyFrame, AbsentData, NoChoices, FinishToolCalls, FinishStop,
      TokenDelta("a"), TokenDelta("b"), NameDelta("get"), NameDelta("Weather"),
      BothDelta("getWeather", "{"), ArgsDelta("}"), ArgsDelta("\"x\":1}"),
      TwoCalls, UnknownFrame }

\* the frames of a conversation that runs as the protocol intends
ChainFrames ==
    { Terminator, FinishToolCalls, FinishStop, TokenDelta("a"), TokenDelta("b"),
      BothDelta("getWeather", "{\"x\":1}") }

\* the frames of a conversation about one tool call
ToolFrames ==
    { Terminator, FinishToolCalls, FinishStop, TokenDelta("a"),
      BothDelta("getWeather", "{\"x\":1}") }

\* the frames of a conversation in which things go wrong
ErrorFrames ==
    { Terminator, FinishToolCalls, FinishStop, EmptyFrame, UnknownFrame,
      BothDelta("getWeather", "{\"x\":1}") }

\* frames that put the order of the tests of handleNewChunk to work: finish
\* frames that carry a delta, a delta with text and a tool call, chunks
\* with no choice, a tool-call entry with no fragment
DecodeFrames ==
    { StopWithText, ToolCallsWithDelta, TextAndCall, NoChoices, AbsentChoices,
      BareCall, LengthFrame, TokenDelta("a"), NameDelta("get"),
      BothDelta("getWeather", "{\"x\":1}") }

\* the events the transport hands to the 'error' listener: a connection
\* error, an exception in the transport, a timeout
ConnectionError == [type |-> "error", message |-> "Connection failed"]
TransportException == [type |-> "exception", message |-> "Invalid state"]
Timeout == [type |-> "timeout"]

ErrorEvents == { ConnectionError, TransportException, Timeout }

(***************************************************************************)
(* State                                                                   *)
(***************************************************************************)
VARIABLES
    \* the ChatCompletion objects, in order of construction; sessions[1] is
    \* the one the caller created.  `parent` is the session whose wrapped
    \* callbacks this one holds (0: the caller's own callbacks).
    sessions,
    \* the activations of handleToolCall that reached chosenTool.render
    toolRuns,
    \* the calls the original caller's callbacks have received, in order
    calls,
    \* the events each session's listeners have received, in order
    recv,
    \* the state of the useChat hook that made the request: what its
    \* useState cells hold, and the updatedMessages each call of handleSubmit
    \* closed over together with the session that call created
    hook

vars == <<sessions, toolRuns, calls, recv, hook>>

\* useChat's state when the component has mounted: the useState cells and
\* the effect that sets the initial messages
Mounted(initialMessages) ==
    [ input |-> "",
      messages |-> initialMessages,
      error |-> Undefined,
      isLoading |-> FALSE,
      isStreaming |-> FALSE,
      closures |-> <<>> ]

\* updatedMessages of handleSubmit(msg)
UpdatedMessages(h, msg) == h.messages \o <<UserMessage(msg)>>

\* the hook after handleSubmit(msg), whose createChatCompletion made
\* `session`
Submitted(h, msg, session) ==
    [h EXCEPT !.isLoading = TRUE,
              !.input = "",
              !.messages = UpdatedMessages(h, msg),
              !.closures = Append(@, [session |-> session,
                                      updatedMessages |-> UpdatedMessages(h, msg)])]

\* new ChatCompletion(api, params, callbacks) followed by start()
NewSession(params, parent) ==
    [ params |-> params,
      parent |-> parent,
      newMessage |-> "",
      newToolCall |-> [name |-> "", arguments |-> ""],
      toolCallResult |-> Null,
      toolRenderResult |-> Null,
      finished |-> FALSE,
      eventSource |-> "open" ]

Init ==
    /\ \E t \in {NoTools, DeclaredTools} :
          sessions = <<NewSession([messages |-> InitialMessages, tools |-> t], 0)>>
    /\ toolRuns = <<>>
    /\ calls = <<>>
    /\ recv = << <<>> >>
    /\ hook = Submitted(Mounted(<<>>), "hi", 1)

(***************************************************************************)
(* getMessages: the messages received so far                               *)
(***************************************************************************)
\* (mutant) the function-role message put before the display unit
GetMessagesDataFirst(me) ==
    (IF me.newMessage # "" THEN <<AssistantMessage(me.newMessage)>> ELSE <<>>)
    \o (IF me.toolCallResult # Null
        THEN <<FunctionMessage(me.newToolCall.name,
                               JSONStringify(me.toolCallResult))>>
        ELSE <<>>)
    \o (IF me.toolRenderResult # Null THEN <<me.toolRenderResult>> ELSE <<>>)

GetMessages(me) ==
    (IF me.newMessage # "" THEN <<AssistantMessage(me.newMessage)>> ELSE <<>>)
    \o (IF me.toolRenderResult # Null THEN <<me.toolRenderResult>> ELSE <<>>)
    \o (IF me.toolCallResult # Null
        THEN <<FunctionMessage(me.newToolCall.name,
                               JSONStringify(me.toolCallResult))>>
        ELSE <<>>)

\* filterOutReactComponents
\* (mutant) nothing is filtered out
FilterOutReactComponentsKeepsAll(messages) == messages

FilterOutReactComponents(messages) ==
    SelectSeq(messages, LAMBDA m : ~IsValidElement(m))

(***************************************************************************)
(* Callbacks.  A child holds wrapped onChunkReceived and onDone, which     *)
(* call the parent's callbacks with the parent's getMessages() in front;   *)
(* onError is the parent's own (`...this.callbacks`).  The operators give  *)
(* what reaches the caller when session s calls its callback with          *)
(* `messages`, in the state ss.                                            *)
(***************************************************************************)
\* (mutant) the child's chunks are handed on without the parent's messages
OnChunkReceivedBare(ss, s, messages) == messages

RECURSIVE OnChunkReceived(_, _, _)
OnChunkReceived(ss, s, messages) ==
    IF ss[s].parent = 0
    THEN messages
    ELSE OnChunkReceived(ss, ss[s].parent,
                         GetMessages(ss[ss[s].parent]) \o messages)

\* (mutant) the parent's messages put behind the child's
RECURSIVE OnDoneChildFirst(_, _, _)
OnDoneChildFirst(ss, s, messages) ==
    IF ss[s].parent = 0
    THEN messages
    ELSE OnDoneChildFirst(ss, ss[s].parent,
                          messages \o GetMessages(ss[ss[s].parent]))

RECURSIVE OnDone(_, _, _)
OnDone(ss, s, messages) ==
    IF ss[s].parent = 0
    THEN messages
    ELSE OnDone(ss, ss[s].parent, GetMessages(ss[ss[s].parent]) \o messages)

ChunkCall(ss, s, messages) ==
    [ cb |-> "onChunkReceived", session |-> s, own |-> messages,
      messages |-> OnChunkReceived(ss, s, messages) ]

DoneCall(ss, s, messages) ==
    [ cb |-> "onDone", session |-> s, own |-> messages,
      messages |-> OnDone(ss, s, messages) ]

\* (mutant) a child's error reaches the caller wrapped in another message
ErrorCallWrapped(s, message) ==
    [ cb |-> "onError", session |-> s,
      error |-> IF sessions[s].parent # 0
                THEN "Error in tool call: " \o message
                ELSE message ]

\* onError is the caller's own function at every depth
ErrorCall(s, message) ==
    [ cb |-> "onError", session |-> s, error |-> message ]

\* notifyChunksReceived
NotifyChunksReceived(ss, s) == ChunkCall(ss, s, GetMessages(ss[s]))

(***************************************************************************)
(* useChat: the three callbacks handleSubmit passes to the completion      *)
(***************************************************************************)
\* the session the caller created, of which s is a continuation
RECURSIVE Root(_)
Root(s) == IF sessions[s].parent = 0 THEN s ELSE Root(sessions[s].parent)

\* updatedMessages in the closure of the callbacks that session s reaches
ClosureOf(h, s) ==
    LET k == CHOOSE k \in DOMAIN h.closures : h.closures[k].session = Root(s)
    IN  h.closures[k].updatedMessages

\* (mutant) the streamed messages are put behind the messages shown
HookOnChunkReceivedOnShown(h, updatedMessages, newMessages) ==
    [h EXCEPT !.isStreaming = TRUE,
              !.messages = h.messages \o newMessages]

HookOnChunkReceived(h, updatedMessages, newMessages) ==
    [h EXCEPT !.isStreaming = TRUE,
              !.messages = updatedMessages \o newMessages]

HookOnError(h, error) ==
    [h EXCEPT !.isStreaming = FALSE,
              !.isLoading = FALSE,
              !.error = [message |-> error]]

\* (mutant) onDone leaves the loading state set
HookOnDoneKeepsLoading(h, messages) ==
    [h EXCEPT !.isStreaming = FALSE]

HookOnDone(h, messages) ==
    [h EXCEPT !.isStreaming = FALSE,
              !.isLoading = FALSE]

\* the hook after the call c of one of its callbacks
Caller(h, c) ==
    IF c.cb = "onChunkReceived"
    THEN HookOnChunkReceived(h, ClosureOf(h, c.session), c.messages)
    ELSE IF c.cb = "onError"
    THEN HookOnError(h, c.error)
    ELSE HookOnDone(h, c.messages)

\* the hook after a step of a completion, which makes at most one call
CallerAfter(h, before, after) ==
    IF after = before THEN h ELSE Caller(h, after[Len(after)])

(***************************************************************************)
(* handleNewChunk, the 'message' listener                                  *)
(***************************************************************************)
\* (mutant) the delta put in front of the text
AppendContentInFront(newMessage, content) == content \o newMessage

\* this.newMessage += firstChoice.delta.content
AppendContent(newMessage, content) == newMessage \o content

\* (mutant) the name fragment replaces the name instead of extending it
AppendToolCallOverwritesName(newToolCall, firstToolCall) ==
    LET hasFunction == "function" \in DOMAIN firstToolCall
        fn == firstToolCall.function
        name == IF hasFunction /\ "name" \in DOMAIN fn /\ fn.name # ""
                THEN fn.name
                ELSE newToolCall.name
        arguments == IF hasFunction /\ "arguments" \in DOMAIN fn /\ fn.arguments # ""
                     THEN newToolCall.arguments \o fn.arguments
                     ELSE newToolCall.arguments
    IN  [name |-> name, arguments |-> arguments]

\* the two appends to this.newToolCall, each under its own truthiness test
AppendToolCall(newToolCall, firstToolCall) ==
    LET hasFunction == "function" \in DOMAIN firstToolCall
        fn == firstToolCall.function
        name == IF hasFunction /\ "name" \in DOMAIN fn /\ fn.name # ""
                THEN newToolCall.name \o fn.name
                ELSE newToolCall.name
        arguments == IF hasFunction /\ "arguments" \in DOMAIN fn /\ fn.arguments # ""
                     THEN newToolCall.arguments \o fn.arguments
                     ELSE newToolCall.arguments
    IN  [name |-> name, arguments |-> arguments]

\* what the stop branch hands to onDone
StopMessages(me) == <<AssistantMessage(me.newMessage)>>

\* (mutant) the tool is not looked up among the declared tools
ToolCallCheckWithoutLookup(me) ==
    IF me.newToolCall.name = ""
    THEN [kind |-> "error", message |-> "Tool call received without a name."]
    ELSE LET parsed == JSONParse(me.newToolCall.arguments) IN
         IF ~parsed.ok
         THEN [kind |-> "throws"]
         ELSE IF ~SchemaAccepts(parsed.value)
         THEN [kind |-> "error", message |-> "Invalid arguments received."]
         ELSE [kind |-> "render", args |-> parsed.value]

\* (mutant) the tool is looked up before the name is tested
ToolCallCheckLookupFirst(me) ==
    IF me.params.tools = Null \/ me.newToolCall.name \notin me.params.tools.keys
    THEN [kind |-> "error", message |-> "Tool call received for unknown tool."]
    ELSE IF me.newToolCall.name = ""
    THEN [kind |-> "error", message |-> "Tool call received without a name."]
    ELSE LET parsed == JSONParse(me.newToolCall.arguments) IN
         IF ~parsed.ok
         THEN [kind |-> "throws"]
         ELSE IF ~SchemaAccepts(parsed.value)
         THEN [kind |-> "error", message |-> "Invalid arguments received."]
         ELSE [kind |-> "render", args |-> parsed.value]

\* the outcome of handleToolCall up to chosenTool.render(args): the four
\* checks in the order of the code.  "throws" is JSON.parse throwing, which
\* rejects the promise that `void this.handleToolCall()` drops.
ToolCallCheck(me) ==
    IF me.newToolCall.name = ""
    THEN [kind |-> "error", message |-> "Tool call received without a name."]
    ELSE IF me.params.tools = Null \/ me.newToolCall.name \notin me.params.tools.keys
    THEN [kind |-> "error", message |-> "Tool call received for unknown tool."]
    ELSE LET parsed == JSONParse(me.newToolCall.arguments) IN
         IF ~parsed.ok
         THEN [kind |-> "throws"]
         ELSE IF ~SchemaAccepts(parsed.value)
         THEN [kind |-> "error", message |-> "Invalid arguments received."]
         ELSE [kind |-> "render", args |-> parsed.value]

\* a fresh activation of handleToolCall, suspended in `await generator.next()`
NewToolRun(s, name, args) ==
    [ session |-> s, tool |-> name, args |-> args, pc |-> "pulling",
      pulled |-> <<>>, child |-> 0 ]

\* (mutant) a tool call marks the session as running again
HandleToolCallRestarts(s) ==
    LET me == sessions[s]
        check == ToolCallCheck(me)
    IN  /\ calls' = IF check.kind = "error"
                    THEN Append(calls, ErrorCall(s, check.message))
                    ELSE calls
        /\ toolRuns' = IF check.kind = "render"
                       THEN Append(toolRuns,
                                   NewToolRun(s, me.newToolCall.name, check.args))
                       ELSE toolRuns
        /\ sessions' = [sessions EXCEPT ![s].finished = FALSE]

\* (mutant) a tool call that fails its checks marks the session finished
HandleToolCallFinishesOnError(s) ==
    LET me == sessions[s]
        check == ToolCallCheck(me)
    IN  /\ calls' = IF check.kind = "error"
                    THEN Append(calls, ErrorCall(s, check.message))
                    ELSE calls
        /\ toolRuns' = IF check.kind = "render"
                       THEN Append(toolRuns,
                                   NewToolRun(s, me.newToolCall.name, check.args))
                       ELSE toolRuns
        /\ sessions' = IF check.kind = "error"
                       THEN [sessions EXCEPT ![s].finished = TRUE]
                       ELSE sessions

\* handleToolCall, from its call to its first await
HandleToolCall(s) ==
    LET me == sessions[s]
        check == ToolCallCheck(me)
    IN  /\ calls' = IF check.kind = "error"
                    THEN Append(calls, ErrorCall(s, check.message))
                    ELSE calls
        /\ toolRuns' = IF check.kind = "render"
                       THEN Append(toolRuns,
                                   NewToolRun(s, me.newToolCall.name, check.args))
                       ELSE toolRuns
        /\ UNCHANGED sessions

\* (mutant) the terminator also marks the session finished
CloseAndFinish(me) == [me EXCEPT !.eventSource = "closed", !.finished = TRUE]

\* event.data === '[DONE]': this.eventSource?.close()
CloseEventSource(me) == [me EXCEPT !.eventSource = "closed"]

OnTerminator(s) ==
    /\ sessions' = [sessions EXCEPT ![s] = CloseEventSource(@)]
    /\ UNCHANGED <<calls, toolRuns>>

\* (mutant) an empty message is dropped without a report
OnEmptyMessageDropped(s) == UNCHANGED <<sessions, calls, toolRuns>>

\* !event.data
OnEmptyMessage(s) ==
    /\ calls' = Append(calls, ErrorCall(s, "Empty message received."))
    /\ UNCHANGED <<sessions, toolRuns>>

\* (mutant) onDone is called but the session is not marked finished
OnFinishStopUnmarked(s) ==
    /\ calls' = Append(calls, DoneCall(sessions, s, StopMessages(sessions[s])))
    /\ UNCHANGED <<sessions, toolRuns>>

\* (mutant) the session is marked finished without a call of onDone
OnFinishStopSilent(s) ==
    /\ sessions' = [sessions EXCEPT ![s].finished = TRUE]
    /\ UNCHANGED <<calls, toolRuns>>

\* finish_reason === 'stop'
OnFinishStop(s) ==
    /\ calls' = Append(calls, DoneCall(sessions, s, StopMessages(sessions[s])))
    /\ sessions' = [sessions EXCEPT ![s].finished = TRUE]
    /\ UNCHANGED toolRuns

\* (mutant) the notification goes out before the delta is appended
OnContentNotifiesFirst(s, content) ==
    /\ sessions' = [sessions EXCEPT ![s].newMessage = AppendContent(@, content)]
    /\ calls' = Append(calls, NotifyChunksReceived(sessions, s))
    /\ UNCHANGED toolRuns

\* delta.content != null
OnContent(s, content) ==
    LET ss == [sessions EXCEPT ![s].newMessage = AppendContent(@, content)]
    IN  /\ sessions' = ss
        /\ calls' = Append(calls, NotifyChunksReceived(ss, s))
        /\ UNCHANGED toolRuns

\* (mutant) a tool-call delta is notified like a text delta
OnToolCallsNotifies(s, tool_calls) ==
    LET ss == [sessions EXCEPT
                 ![s].newToolCall = AppendToolCall(@, tool_calls[1])]
    IN  /\ sessions' = ss
        /\ calls' = Append(calls, NotifyChunksReceived(ss, s))
        /\ UNCHANGED toolRuns

\* delta.tool_calls is not empty
OnToolCalls(s, tool_calls) ==
    /\ sessions' = [sessions EXCEPT
                      ![s].newToolCall = AppendToolCall(@, tool_calls[1])]
    /\ UNCHANGED <<calls, toolRuns>>

\* (mutant) after the report the connection is closed
OnUnknownMessageCloses(s) ==
    /\ calls' = Append(calls, ErrorCall(s, "Unknown message received."))
    /\ sessions' = [sessions EXCEPT ![s].eventSource = "closed"]
    /\ UNCHANGED toolRuns

\* none of the above
OnUnknownMessage(s) ==
    /\ calls' = Append(calls, ErrorCall(s, "Unknown message received."))
    /\ UNCHANGED <<sessions, toolRuns>>

\* (mutant) a chunk with no choice is reported like an empty message
OnNoChoicesReports(s) ==
    /\ calls' = Append(calls, ErrorCall(s, "Empty message received."))
    /\ UNCHANGED <<sessions, toolRuns>>

\* e.choices == null || e.choices.length === 0
OnNoChoices(s) == UNCHANGED <<sessions, calls, toolRuns>>

\* (mutant) the deltas are tested before the finish reason
HandleNewChunkDeltaFirst(s, event) ==
    /\ recv' = [recv EXCEPT ![s] = Append(@, event)]
    /\ IF "data" \in DOMAIN event /\ event.data = "[DONE]"
       THEN OnTerminator(s)
       ELSE IF "data" \notin DOMAIN event \/ event.data = ""
       THEN OnEmptyMessage(s)
       ELSE IF "choices" \notin DOMAIN event.chunk \/ Len(event.chunk.choices) = 0
       THEN OnNoChoices(s)
       ELSE LET firstChoice == event.chunk.choices[1]
                delta == firstChoice.delta
            IN
            IF "content" \in DOMAIN delta
            THEN OnContent(s, delta.content)
            ELSE IF "tool_calls" \in DOMAIN delta /\ Len(delta.tool_calls) > 0
            THEN OnToolCalls(s, delta.tool_calls)
            ELSE IF firstChoice.finish_reason = "tool_calls"
            THEN HandleToolCall(s)
            ELSE IF firstChoice.finish_reason = "stop"
            THEN OnFinishStop(s)
            ELSE OnUnknownMessage(s)

\* (mutant) a session that is finished takes no more frames
HandleNewChunkUntilFinished(s, event) ==
    /\ recv' = [recv EXCEPT ![s] = Append(@, event)]
    /\ IF sessions[s].finished
       THEN UNCHANGED <<sessions, calls, toolRuns>>
       ELSE IF "data" \in DOMAIN event /\ event.data = "[DONE]"
       THEN OnTerminator(s)
       ELSE IF "data" \notin DOMAIN event \/ event.data = ""
       THEN OnEmptyMessage(s)
       ELSE IF "choices" \notin DOMAIN event.chunk \/ Len(event.chunk.choices) = 0
       THEN OnNoChoices(s)
       ELSE LET firstChoice == event.chunk.choices[1]
                delta == firstChoice.delta
            IN
            IF firstChoice.finish_reason = "tool_calls"
            THEN HandleToolCall(s)
            ELSE IF firstChoice.finish_reason = "stop"
            THEN OnFinishStop(s)
            ELSE IF "content" \in DOMAIN delta
            THEN OnContent(s, delta.content)
            ELSE IF "tool_calls" \in DOMAIN delta /\ Len(delta.tool_calls) > 0
            THEN OnToolCalls(s, delta.tool_calls)
            ELSE OnUnknownMessage(s)

HandleNewChunk(s, event) ==
    /\ recv' = [recv EXCEPT ![s] = Append(@, event)]
    /\ IF "data" \in DOMAIN event /\ event.data = "[DONE]"
       THEN OnTerminator(s)
       ELSE IF "data" \notin DOMAIN event \/ event.data = ""
       THEN OnEmptyMessage(s)
       ELSE IF "choices" \notin DOMAIN event.chunk \/ Len(event.chunk.choices) = 0
       THEN OnNoChoices(s)
       ELSE LET firstChoice == event.chunk.choices[1]
                delta == firstChoice.delta
            IN
            IF firstChoice.finish_reason = "tool_calls"
            THEN HandleToolCall(s)
            ELSE IF firstChoice.finish_reason = "stop"
            THEN OnFinishStop(s)
            ELSE IF "content" \in DOMAIN delta
            THEN OnContent(s, delta.content)
            ELSE IF "tool_calls" \in DOMAIN delta /\ Len(delta.tool_calls) > 0
            THEN OnToolCalls(s, delta.tool_calls)
            ELSE OnUnknownMessage(s)

(***************************************************************************)
(* The 'error' listener that start() installs                              *)
(***************************************************************************)
\* this.callbacks.onError?.(new Error(event.message)) for the two types the
\* listener tells apart; an event of another type is dropped
HandleErrorEvent(s, event) ==
    /\ recv' = [recv EXCEPT ![s] = Append(@, event)]
    /\ calls' = IF event.type \in {"error", "exception"}
                THEN Append(calls, ErrorCall(s, event.message))
                ELSE calls
    /\ UNCHANGED <<sessions, toolRuns>>

(***************************************************************************)
(* handleToolCall after its first await: the pull loop, then               *)
(* streamRecursiveAfterToolCall                                            *)
(***************************************************************************)
Yield(v) == [kind |-> "yield", value |-> v]
Return(v) == [kind |-> "return", value |-> v]
Throw == [kind |-> "throw", value |-> Undefined]

\* what getWeather's producer returns
Artifact == [component |-> Element("Weather"), data |-> [x |-> 7]]

\* the steps a producer may take
Outcomes ==
    { Yield(Element("Spinner")), Yield(Element("Loading")), Yield(Artifact),
      Return(Artifact), Return(Undefined), Throw }

\* the steps of a producer that keeps to its type
ChainOutcomes == { Yield(Element("Spinner")), Return(Artifact) }

\* (mutant) a display unit, once shown, is not replaced by a later one
SaveValueKeepsFirst(me, value) ==
    IF value # Undefined /\ "data" \in DOMAIN value /\ "component" \in DOMAIN value
    THEN [me EXCEPT !.toolRenderResult =
                        IF @ = Null THEN value.component ELSE @,
                    !.toolCallResult = value.data]
    ELSE IF IsValidElement(value)
    THEN [me EXCEPT !.toolRenderResult = IF @ = Null THEN value ELSE @]
    ELSE me

\* the body of the pull loop on one pulled value
\* (mutant) of a {data, component} value only the component is kept
SaveValueComponentOnly(me, value) ==
    IF value # Undefined /\ "data" \in DOMAIN value /\ "component" \in DOMAIN value
    THEN [me EXCEPT !.toolRenderResult = value.component]
    ELSE IF IsValidElement(value)
    THEN [me EXCEPT !.toolRenderResult = value]
    ELSE me

SaveValue(me, value) ==
    IF value # Undefined /\ "data" \in DOMAIN value /\ "component" \in DOMAIN value
    THEN [me EXCEPT !.toolRenderResult = value.component,
                    !.toolCallResult = value.data]
    ELSE IF IsValidElement(value)
    THEN [me EXCEPT !.toolRenderResult = value]
    ELSE me

\* (mutant) the messages are passed on as getMessages returns them
ChildParamsUnfiltered(me) ==
    [me.params EXCEPT !.messages = @ \o GetMessages(me)]

\* the params of the completion streamRecursiveAfterToolCall creates
ChildParams(me) ==
    [me.params EXCEPT
        !.messages = @ \o FilterOutReactComponents(GetMessages(me))]

\* (mutant) the recursion stops at depth one: a child's tool call ends
\* without a continuation of its own
PullNextDepthLimited(t, o) ==
    LET run == toolRuns[t]
        s == run.session
        ss == [sessions EXCEPT ![s] = SaveValue(@, o.value)]
        spawns == o.kind = "return" /\ sessions[s].parent = 0
    IN
    /\ run.pc = "pulling"
    /\ Len(run.pulled) < MaxPulls
    /\ o.kind = "yield" => Len(run.pulled) + 1 < MaxPulls
    /\ recv' = IF spawns THEN Append(recv, <<>>) ELSE recv
    /\ IF o.kind = "throw"
       THEN /\ toolRuns' = [toolRuns EXCEPT ![t].pc = "rejected",
                                            ![t].pulled = Append(@, o)]
            /\ UNCHANGED <<sessions, calls>>
       ELSE /\ calls' = Append(calls, NotifyChunksReceived(ss, s))
            /\ IF spawns
               THEN /\ sessions' = Append(ss, NewSession(ChildParams(ss[s]), s))
                    /\ toolRuns' = [toolRuns EXCEPT ![t].pc = "polling",
                                                    ![t].pulled = Append(@, o),
                                                    ![t].child = Len(ss) + 1]
               ELSE IF o.kind = "return"
               THEN /\ sessions' = [ss EXCEPT ![s].finished = TRUE]
                    /\ toolRuns' = [toolRuns EXCEPT ![t].pc = "returned",
                                                    ![t].pulled = Append(@, o)]
               ELSE /\ sessions' = ss
                    /\ toolRuns' = [toolRuns EXCEPT ![t].pulled = Append(@, o)]
    /\ hook' = CallerAfter(hook, calls, calls')

\* `await generator.next()` resumes with outcome o
PullNext(t, o) ==
    LET run == toolRuns[t]
        s == run.session
        ss == [sessions EXCEPT ![s] = SaveValue(@, o.value)]
    IN
    /\ run.pc = "pulling"
    /\ Len(run.pulled) < MaxPulls
    /\ o.kind = "yield" => Len(run.pulled) + 1 < MaxPulls
    /\ recv' = IF o.kind = "return" THEN Append(recv, <<>>) ELSE recv
    /\ IF o.kind = "throw"
       THEN /\ toolRuns' = [toolRuns EXCEPT ![t].pc = "rejected",
                                            ![t].pulled = Append(@, o)]
            /\ UNCHANGED <<sessions, calls>>
       ELSE /\ calls' = Append(calls, NotifyChunksReceived(ss, s))
            /\ IF o.kind = "return"
               THEN /\ sessions' = Append(ss, NewSession(ChildParams(ss[s]), s))
                    /\ toolRuns' = [toolRuns EXCEPT ![t].pc = "polling",
                                                    ![t].pulled = Append(@, o),
                                                    ![t].child = Len(ss) + 1]
               ELSE /\ sessions' = ss
                    /\ toolRuns' = [toolRuns EXCEPT ![t].pulled = Append(@, o)]
    /\ hook' = CallerAfter(hook, calls, calls')

\* (mutant) handleToolCall does not wait for the new completion
PollWithoutWaiting(t) ==
    LET run == toolRuns[t] IN
    /\ run.pc = "polling"
    /\ sessions' = [sessions EXCEPT ![run.session].finished = TRUE]
    /\ toolRuns' = [toolRuns EXCEPT ![t].pc = "returned"]
    /\ UNCHANGED <<calls, recv, hook>>

\* (mutant) the loop also ends when the child's transport is closed
PollGivesUpOnClosed(t) ==
    LET run == toolRuns[t] IN
    /\ run.pc = "polling"
    /\ sessions[run.child].finished \/ sessions[run.child].eventSource = "closed"
    /\ sessions' = [sessions EXCEPT ![run.session].finished = TRUE]
    /\ toolRuns' = [toolRuns EXCEPT ![t].pc = "returned"]
    /\ UNCHANGED <<calls, recv, hook>>

\* (mutant) the loop ends when the child has finished, but handleToolCall
\* does not mark its own session
PollLeavesParentRunning(t) ==
    LET run == toolRuns[t] IN
    /\ run.pc = "polling"
    /\ sessions[run.child].finished
    /\ toolRuns' = [toolRuns EXCEPT ![t].pc = "returned"]
    /\ UNCHANGED <<sessions, calls, recv, hook>>

\* the poll loop of streamRecursiveAfterToolCall wakes up and finds the child
\* finished; handleToolCall then sets this.finished
Poll(t) ==
    LET run == toolRuns[t] IN
    /\ run.pc = "polling"
    /\ sessions[run.child].finished
    /\ sessions' = [sessions EXCEPT ![run.session].finished = TRUE]
    /\ toolRuns' = [toolRuns EXCEPT ![t].pc = "returned"]
    /\ UNCHANGED <<calls, recv, hook>>

(***************************************************************************)
(* The transport and the specifications                                    *)
(***************************************************************************)
RECURSIVE Received(_)
Received(r) == IF r = <<>> THEN 0 ELSE Len(Head(r)) + Received(Tail(r))

\* the event source of session s delivers a 'message' event
Message(s, event) ==
    /\ sessions[s].eventSource = "open"
    /\ HandleNewChunk(s, event)
    /\ hook' = CallerAfter(hook, calls, calls')

Next ==
    \/ \E s \in DOMAIN sessions, event \in Frames :
          Received(recv) < MaxFrames /\ Message(s, event)
    \/ \E t \in DOMAIN toolRuns, o \in ChainOutcomes : PullNext(t, o)
    \/ \E t \in DOMAIN toolRuns : Poll(t)

Spec == Init /\ [][Next]_vars

\* a finish frame has reached session s
Finishing(s) ==
    \E i \in DOMAIN recv[s] :
        recv[s][i] \in {FinishStop, FinishToolCalls}

\* the server of SpecChain keeps to the protocol: deltas, one finish frame,
\* then the terminator
ChainMessage(s, event) ==
    /\ Finishing(s) <=> event = Terminator
    /\ Message(s, event)

NextChain ==
    \/ \E s \in DOMAIN sessions, event \in ChainFrames :
          Received(recv) < MaxChainFrames /\ ChainMessage(s, event)
    \/ \E t \in DOMAIN toolRuns, o \in ChainOutcomes : PullNext(t, o)
    \/ \E t \in DOMAIN toolRuns : Poll(t)

InitChain ==
    /\ sessions = <<NewSession([messages |-> InitialMessages,
                                tools |-> DeclaredTools], 0)>>
    /\ toolRuns = <<>>
    /\ calls = <<>>
    /\ recv = << <<>> >>
    /\ hook = Submitted(Mounted(<<>>), "hi", 1)

SpecChain == InitChain /\ [][NextChain]_vars

\* SpecTool: the server keeps to the protocol, and the tool's producer may
\* take any step: yield an element or a {component, data} pair, return the
\* pair or nothing, or throw
NextTool ==
    \/ \E s \in DOMAIN sessions, event \in ToolFrames :
          Received(recv) < MaxToolFrames /\ ChainMessage(s, event)
    \/ \E t \in DOMAIN toolRuns, o \in Outcomes : PullNext(t, o)
    \/ \E t \in DOMAIN toolRuns : Poll(t)

SpecTool == InitChain /\ [][NextTool]_vars

\* the event source of session s delivers an 'error' event
ErrorEvent(s, event) ==
    /\ sessions[s].eventSource = "open"
    /\ HandleErrorEvent(s, event)
    /\ hook' = CallerAfter(hook, calls, calls')

\* SpecError: the server keeps to the protocol but for frames that are empty
\* or of no known shape, and the transport reports errors
NextError ==
    \/ \E s \in DOMAIN sessions, event \in ErrorFrames :
          Received(recv) < MaxErrorEvents /\ ChainMessage(s, event)
    \/ \E s \in DOMAIN sessions, event \in ErrorEvents :
          Received(recv) < MaxErrorEvents /\ ErrorEvent(s, event)
    \/ \E t \in DOMAIN toolRuns, o \in ChainOutcomes : PullNext(t, o)
    \/ \E t \in DOMAIN toolRuns : Poll(t)

SpecError == InitChain /\ [][NextError]_vars

(***************************************************************************)
(* SpecLive: the steps of SpecTool with the scheduling the runtime gives.  *)
(* The poll loop of streamRecursiveAfterToolCall is driven by a timer      *)
(* (`setTimeout(resolve, 100)`), and a timer that is set fires: a poll     *)
(* that stays able to see the child finished does see it.  Nothing is      *)
(* assumed of the server or of the producer, which may stop at any point.  *)
(***************************************************************************)
NextLive ==
    \/ \E s \in DOMAIN sessions, event \in ToolFrames :
          Received(recv) < MaxLiveFrames /\ ChainMessage(s, event)
    \/ \E t \in DOMAIN toolRuns, o \in Outcomes : PullNext(t, o)
    \/ \E t \in DOMAIN toolRuns : Poll(t)

\* every tool run takes two frames, so there are fewer runs than frames
Runs == 1..MaxLiveFrames

SpecLive ==
    /\ InitChain
    /\ [][NextLive]_vars
    /\ \A t \in Runs : WF_vars(t \in DOMAIN toolRuns /\ Poll(t))

(***************************************************************************)
(* SpecAbort: conversations in which a session comes to nothing.  The     *)
(* server sends at most one finish frame per session and after it only    *)
(* the terminator, but it may send the terminator with no finish frame    *)
(* before it, or ask for a tool that is not declared; the transport may   *)
(* report a connection error; the producer may throw.                     *)
(***************************************************************************)
AbortFrames ==
    { Terminator, FinishToolCalls, FinishStop, NameDelta("get"),
      BothDelta("getWeather", "{\"x\":1}") }

AbortOutcomes == { Return(Artifact), Throw }

AbortMessage(s, event) ==
    /\ Finishing(s) => event = Terminator
    /\ Message(s, event)

NextAbort ==
    \/ \E s \in DOMAIN sessions, event \in AbortFrames :
          Received(recv) < MaxAbortEvents /\ AbortMessage(s, event)
    \/ \E s \in DOMAIN sessions :
          Received(recv) < MaxAbortEvents /\ ErrorEvent(s, ConnectionError)
    \/ \E t \in DOMAIN toolRuns, o \in AbortOutcomes : PullNext(t, o)
    \/ \E t \in DOMAIN toolRuns : Poll(t)

SpecAbort == InitChain /\ [][NextAbort]_vars

(***************************************************************************)
(* SpecLate: a server that keeps sending after a finish frame: text and    *)
(* finish frames reach a session that is finished, or that waits for its   *)
(* tool or for its child.                                                  *)
(***************************************************************************)
LateFrames ==
    { FinishToolCalls, FinishStop, TokenDelta("a"),
      BothDelta("getWeather", "{\"x\":1}") }

NextLate ==
    \/ \E s \in DOMAIN sessions, event \in LateFrames :
          Received(recv) < MaxLateFrames /\ Message(s, event)
    \/ \E t \in DOMAIN toolRuns, o \in ChainOutcomes : PullNext(t, o)
    \/ \E t \in DOMAIN toolRuns : Poll(t)

SpecLate == InitChain /\ [][NextLate]_vars

(***************************************************************************)
(* SpecDecode: a server that sends, in any order, the frames that more     *)
(* than one test of handleNewChunk would accept.                           *)
(***************************************************************************)
NextDecode ==
    \/ \E s \in DOMAIN sessions, event \in DecodeFrames :
          Received(recv) < MaxDecodeFrames /\ Message(s, event)
    \/ \E t \in DOMAIN toolRuns, o \in ChainOutcomes : PullNext(t, o)
    \/ \E t \in DOMAIN toolRuns : Poll(t)

SpecDecode == InitChain /\ [][NextDecode]_vars

(***************************************************************************)
(* SpecHook: the useChat hook drives the completions.  The component       *)
(* mounts with or without initial messages, the user types and submits,    *)
(* and every submission starts a completion of its own.                    *)
(***************************************************************************)
\* the initialMessages a component may pass
MountMessages == { <<>>, <<Element("Banner"), AssistantMessage("welcome")>> }

\* onInputChange
OnInputChange(text) ==
    /\ hook.input # text
    /\ hook' = [hook EXCEPT !.input = text]
    /\ UNCHANGED <<sessions, toolRuns, calls, recv>>

\* handleSubmit(msg) up to its await
HandleSubmit(msg) ==
    /\ sessions' = Append(sessions,
           NewSession([messages |-> FilterOutReactComponents(UpdatedMessages(hook, msg)),
                       tools |-> DeclaredTools], 0))
    /\ recv' = Append(recv, <<>>)
    /\ hook' = Submitted(hook, msg, Len(sessions) + 1)
    /\ UNCHANGED <<toolRuns, calls>>

InitHook ==
    /\ sessions = <<>>
    /\ toolRuns = <<>>
    /\ calls = <<>>
    /\ recv = <<>>
    /\ \E m \in MountMessages : hook = Mounted(m)

NextHook ==
    \/ OnInputChange("hi")
    \/ Len(hook.closures) < MaxSubmits /\ HandleSubmit(hook.input)
    \/ \E s \in DOMAIN sessions, event \in ToolFrames :
          Received(recv) < MaxHookFrames /\ ChainMessage(s, event)
    \/ \E s \in DOMAIN sessions :
          Received(recv) < MaxHookFrames /\ ErrorEvent(s, ConnectionError)
    \/ \E t \in DOMAIN toolRuns, o \in ChainOutcomes : PullNext(t, o)
    \/ \E t \in DOMAIN toolRuns : Poll(t)

SpecHook == InitHook /\ [][NextHook]_vars

(***************************************************************************)
(* SpecOverlap: a user who does not wait.  handleSubmit has no guard, so   *)
(* a message may be submitted while the completions of earlier ones are    *)
(* still running.                                                          *)
(***************************************************************************)
OverlapFrames ==
    { FinishToolCalls, FinishStop, TokenDelta("a"),
      BothDelta("getWeather", "{\"x\":1}") }

NextOverlap ==
    \/ Len(hook.closures) < MaxOverlapSubmits /\ HandleSubmit("hi")
    \/ \E s \in DOMAIN sessions, event \in OverlapFrames :
          Received(recv) < MaxOverlapEvents /\ ChainMessage(s, event)
    \/ \E s \in DOMAIN sessions :
          Received(recv) < MaxOverlapEvents /\ ErrorEvent(s, ConnectionError)
    \/ \E t \in DOMAIN toolRuns : PullNext(t, Return(Artifact))
    \/ \E t \in DOMAIN toolRuns : Poll(t)

SpecOverlap == InitHook /\ [][NextOverlap]_vars

(***************************************************************************)
(* The vocabulary of the claims: what a frame is, read off its payload,    *)
(* and what the frames a session has received add up to.                   *)
(***************************************************************************)
HasChoice(f) ==
    "data" \in DOMAIN f /\ f.data = "json" /\ "choices" \in DOMAIN f.chunk /\ Len(f.chunk.choices) > 0

FinishReason(f) ==
    IF HasChoice(f) THEN f.chunk.choices[1].finish_reason ELSE "none"

IsFinishStop(f) == FinishReason(f) = "stop"

IsFinishToolCalls(f) == FinishReason(f) = "tool_calls"

IsTokenDelta(f) ==
    /\ HasChoice(f)
    /\ FinishReason(f) \notin {"stop", "tool_calls"}
    /\ "content" \in DOMAIN f.chunk.choices[1].delta

IsToolCallDelta(f) ==
    /\ HasChoice(f)
    /\ FinishReason(f) \notin {"stop", "tool_calls"}
    /\ "content" \notin DOMAIN f.chunk.choices[1].delta
    /\ "tool_calls" \in DOMAIN f.chunk.choices[1].delta
    /\ Len(f.chunk.choices[1].delta.tool_calls) > 0

\* the fragment `part` ("name" or "arguments") of the first tool_calls entry
Fragment(f, part) ==
    LET entry == f.chunk.choices[1].delta.tool_calls[1] IN
    IF "function" \in DOMAIN entry /\ part \in DOMAIN entry.function
    THEN entry.function[part]
    ELSE ""

\* d1 + d2 + ... + dn over the text deltas among frames, in arrival order
RECURSIVE TextOf(_)
TextOf(frames) ==
    IF frames = <<>> THEN ""
    ELSE LET f == frames[Len(frames)]
             before == TextOf(SubSeq(frames, 1, Len(frames) - 1))
         IN  IF IsTokenDelta(f)
             THEN before \o f.chunk.choices[1].delta.content
             ELSE before

\* the fragments `part` of the tool-call deltas among frames, in arrival order
RECURSIVE FragmentsOf(_, _)
FragmentsOf(frames, part) ==
    IF frames = <<>> THEN ""
    ELSE LET f == frames[Len(frames)]
             before == FragmentsOf(SubSeq(frames, 1, Len(frames) - 1), part)
         IN  IF IsToolCallDelta(f) THEN before \o Fragment(f, part) ELSE before

\* this step delivers frame f to session s
Delivers(s, f) == s \in DOMAIN recv /\ recv'[s] = Append(recv[s], f)

\* this step makes exactly the call c to the caller's callbacks
Calls(c) == calls' = Append(calls, c)

LastCall == calls[Len(calls)]

(***************************************************************************)
(* C1  After any frames, a session's accumulated assistant text is the     *)
(* concatenation d1+...+dn of the text deltas it received, in arrival      *)
(* order, and a FinishStop that follows hands onDone an assistant message  *)
(* with exactly that text.                                                 *)
(***************************************************************************)
C1_TextIsConcatenationOfDeltas ==
    [][ /\ \A s \in DOMAIN sessions' :
              sessions'[s].newMessage = TextOf(recv'[s])
        /\ \A s \in DOMAIN sessions : \A f \in Frames \cup ChainFrames :
              Delivers(s, f) /\ IsFinishStop(f) =>
                 /\ Len(calls') = Len(calls) + 1
                 /\ calls'[Len(calls')].cb = "onDone"
                 /\ calls'[Len(calls')].session = s
                 /\ calls'[Len(calls')].own =
                        <<AssistantMessage(TextOf(recv[s]))>>
      ]_vars

C1_Witness ==
    \E s \in DOMAIN sessions :
        /\ recv[s] = <<TokenDelta("a"), TokenDelta("b"), FinishStop>>
        /\ sessions[s].newMessage = "ab"
        /\ LastCall.cb = "onDone"

(***************************************************************************)
(* C2  The accumulated tool name is the concatenation of the name          *)
(* fragments and the accumulated arguments the concatenation of the        *)
(* argument fragments of the tool-call delta frames received, in arrival   *)
(* order, however they were split over frames: so it is when               *)
(* FinishToolCalls is handled.  Only the first tool_calls entry of a frame *)
(* counts, and a frame with both fragments appends both.                   *)
(***************************************************************************)
C2_ToolCallIsConcatenationOfFragments ==
    \A s \in DOMAIN sessions :
        /\ sessions[s].newToolCall.name = FragmentsOf(recv[s], "name")
        /\ sessions[s].newToolCall.arguments = FragmentsOf(recv[s], "arguments")

C2_Witness ==
    \E s \in DOMAIN sessions :
        /\ recv[s] = <<TwoCalls, BothDelta("getWeather", "{"),
                       ArgsDelta("\"x\":1}"), FinishToolCalls>>
        /\ sessions[s].newToolCall =
              [name |-> "getgetWeather", arguments |-> "{\"x\":1}"]

\* the onDone calls the caller has received
DoneCalls == {i \in DOMAIN calls : calls[i].cb = "onDone"}

(***************************************************************************)
(* C3  The caller's onDone is invoked exactly once per top-level request:  *)
(* never twice, not zero times once the top-level session has finished,    *)
(* and not while a tool invocation of the chain is still running.          *)
(***************************************************************************)
C3_OnDoneExactlyOnce ==
    /\ Cardinality(DoneCalls) <= 1
    /\ sessions[1].finished => Cardinality(DoneCalls) >= 1
    /\ DoneCalls # {} =>
          \A t \in DOMAIN toolRuns : toolRuns[t].pc # "pulling"

\* the result of a session whose tool call ran to its end
ToolSessionResult(s) ==
    (IF TextOf(recv[s]) # "" THEN <<AssistantMessage(TextOf(recv[s]))>> ELSE <<>>)
    \o <<Element("Weather"), FunctionMessage("getWeather", "{\"x\":7}")>>

\* the results of the sessions above s, outermost first
RECURSIVE ResultsAbove(_)
ResultsAbove(s) ==
    IF sessions[s].parent = 0
    THEN <<>>
    ELSE ResultsAbove(sessions[s].parent) \o ToolSessionResult(sessions[s].parent)

(***************************************************************************)
(* C4  In a round trip with tool calls the list onDone receives is the     *)
(* concatenation, outermost session first, of each session's own result:   *)
(* for every session that ran the tool its assistant text (if any), the    *)
(* display unit and the function-role message with the serialized data,    *)
(* then the innermost session's assistant message; at any depth.           *)
(***************************************************************************)
C4_OnDoneIsConcatenationOfResults ==
    \A i \in DoneCalls :
        calls[i].messages =
            ResultsAbove(calls[i].session)
            \o <<AssistantMessage(TextOf(recv[calls[i].session]))>>

C4_Witness ==
    \E i \in DoneCalls :
        /\ calls[i].session = 3
        /\ sessions[3].parent = 2 /\ sessions[2].parent = 1
        /\ calls[i].messages =
              << AssistantMessage("a"), Element("Weather"),
                 FunctionMessage("getWeather", "{\"x\":7}"),
                 Element("Weather"),
                 FunctionMessage("getWeather", "{\"x\":7}"),
                 AssistantMessage("b") >>

\* no tool was invoked in session s
NoToolRan(s) == \A t \in DOMAIN toolRuns : toolRuns[t].session # s

(***************************************************************************)
(* C5  With non-empty accumulated text T in a session where no tool ran,   *)
(* a FinishStop frame calls onDone with exactly [{assistant, T}] and the   *)
(* session's finished flag becomes true.                                   *)
(***************************************************************************)
C5_FinishStopDeliversText ==
    [][ \A s \in DOMAIN sessions : \A f \in Frames \cup ChainFrames :
          ( /\ Delivers(s, f) /\ IsFinishStop(f)
            /\ sessions[s].newMessage # ""
            /\ NoToolRan(s) )
          => /\ Len(calls') = Len(calls) + 1
             /\ SubSeq(calls', 1, Len(calls)) = calls
             /\ calls'[Len(calls')].cb = "onDone"
             /\ calls'[Len(calls')].session = s
             /\ calls'[Len(calls')].own =
                    <<AssistantMessage(sessions[s].newMessage)>>
             /\ sessions[s].parent = 0 =>
                    calls'[Len(calls')].messages =
                        <<AssistantMessage(sessions[s].newMessage)>>
             /\ sessions'[s].finished
      ]_vars

C5_Witness ==
    \E s \in DOMAIN sessions :
        /\ recv[s] = <<TokenDelta("a"), TokenDelta("b"), TokenDelta("a"), FinishStop>>
        /\ sessions[s].finished
        /\ LastCall.cb = "onDone"
        /\ LastCall.messages = <<AssistantMessage("aba")>>

(***************************************************************************)
(* C6  On FinishStop the payload of onDone is the session's SessionResult, *)
(* the list getMessages builds: the assistant message only if the text is  *)
(* non-empty, then the display unit and the function-role message when     *)
(* they exist.                                                             *)
(***************************************************************************)
C6_FinishStopDeliversSessionResult ==
    [][ \A s \in DOMAIN sessions : \A f \in Frames \cup ChainFrames :
          Delivers(s, f) /\ IsFinishStop(f) =>
             /\ Len(calls') = Len(calls) + 1
             /\ calls'[Len(calls')].cb = "onDone"
             /\ calls'[Len(calls')].own = GetMessages(sessions[s])
      ]_vars

C8_EmptyPayloadReportsOnce ==
    [][ \A s \in DOMAIN sessions : \A f \in {EmptyFrame, AbsentData} :
          Delivers(s, f) =>
             /\ Calls(ErrorCall(s, "Empty message received."))
             /\ sessions' = sessions
             /\ toolRuns' = toolRuns
      ]_vars

C8_Witness ==
    \E s \in DOMAIN sessions :
        /\ recv[s] = <<TokenDelta("a"), EmptyFrame, AbsentData>>
        /\ Len(calls) = 3
        /\ calls[2] = ErrorCall(s, "Empty message received.")
        /\ calls[3] = ErrorCall(s, "Empty message received.")

\* the accumulated name is not empty and names no declared tool
UnknownTool(me) ==
    /\ me.newToolCall.name # ""
    /\ me.params.tools = NoTools \/ me.newToolCall.name \notin {"getWeather"}

(***************************************************************************)
(* C9  When FinishToolCalls is handled and the accumulated tool name is    *)
(* non-empty but not a key of the declared tools (or no tools were         *)
(* declared), there is exactly one onError call, citing an unknown tool;   *)
(* no render capability is invoked, no chunk is notified and no child      *)
(* session is created.                                                     *)
(***************************************************************************)
C9_UnknownToolReportsOnce ==
    [][ \A s \in DOMAIN sessions : \A f \in Frames \cup ChainFrames :
          Delivers(s, f) /\ IsFinishToolCalls(f) /\ UnknownTool(sessions[s]) =>
             /\ Calls(ErrorCall(s, "Tool call received for unknown tool."))
             /\ toolRuns' = toolRuns
             /\ sessions' = sessions
      ]_vars

C9_Witness ==
    \E s \in DOMAIN sessions :
        /\ recv[s] = <<NameDelta("get"), ArgsDelta("\"x\":1}"), FinishToolCalls>>
        /\ sessions[s].params.tools = DeclaredTools
        /\ calls = <<ErrorCall(s, "Tool call received for unknown tool.")>>
        /\ toolRuns = <<>>

\* getWeather called with {}: JSON that lacks the x the schema requires
InvalidArguments(me) ==
    /\ me.params.tools = DeclaredTools
    /\ me.newToolCall.name = "getWeather"
    /\ me.newToolCall.arguments = "{}"

(***************************************************************************)
(* C10  When FinishToolCalls is handled for a declared tool and the parsed *)
(* arguments fail the tool's schema, onError fires exactly once citing     *)
(* invalid arguments, the render capability is not invoked and no child    *)
(* session is created.                                                     *)
(***************************************************************************)
C10_InvalidArgumentsReportOnce ==
    [][ \A s \in DOMAIN sessions : \A f \in Frames \cup ChainFrames :
          Delivers(s, f) /\ IsFinishToolCalls(f) /\ InvalidArguments(sessions[s]) =>
             /\ Calls(ErrorCall(s, "Invalid arguments received."))
             /\ toolRuns' = toolRuns
             /\ sessions' = sessions
      ]_vars

C10_Witness ==
    \E s \in DOMAIN sessions :
        /\ recv[s] = <<BothDelta("getWeather", "{"), ArgsDelta("}"), FinishToolCalls>>
        /\ calls = <<ErrorCall(s, "Invalid arguments received.")>>
        /\ toolRuns = <<>>
        /\ Len(sessions) = 1

(***************************************************************************)
(* C11  When FinishToolCalls is handled and the accumulated tool name is   *)
(* the empty string, onError fires exactly once with the missing-name      *)
(* error, whatever the declared tools and the accumulated arguments are:   *)
(* nothing is looked up, parsed or rendered, and no session changes.       *)
(***************************************************************************)
C11_MissingNameReportsOnce ==
    [][ \A s \in DOMAIN sessions : \A f \in Frames \cup ChainFrames :
          ( /\ Delivers(s, f) /\ IsFinishToolCalls(f)
            /\ sessions[s].newToolCall.name = "" )
          => /\ Calls(ErrorCall(s, "Tool call received without a name."))
             /\ toolRuns' = toolRuns
             /\ sessions' = sessions
      ]_vars

C11_Witness ==
    \E s \in DOMAIN sessions :
        /\ recv[s] = <<ArgsDelta("}"), FinishToolCalls>>
        /\ sessions[s].params.tools = DeclaredTools
        /\ sessions[s].newToolCall = [name |-> "", arguments |-> "}"]
        /\ calls = <<ErrorCall(s, "Tool call received without a name.")>>
        /\ toolRuns = <<>>

\* getWeather called with accumulated arguments that JSON.parse rejects
MalformedArguments(me) ==
    /\ me.params.tools = DeclaredTools
    /\ me.newToolCall.name = "getWeather"
    /\ me.newToolCall.arguments \notin {"{\"x\":1}", "{}"}

(***************************************************************************)
(* C12  When FinishToolCalls is handled for a declared tool and the        *)
(* accumulated arguments are not JSON (the empty string included), the     *)
(* caller's onError is called with a malformed-arguments error and the     *)
(* render capability is not invoked.                                       *)
(***************************************************************************)
C12_MalformedArgumentsReported ==
    [][ \A s \in DOMAIN sessions : \A f \in Frames \cup ChainFrames :
          ( /\ Delivers(s, f) /\ IsFinishToolCalls(f)
            /\ MalformedArguments(sessions[s]) )
          => /\ Len(calls') = Len(calls) + 1
             /\ calls'[Len(calls')].cb = "onError"
             /\ calls'[Len(calls')].session = s
             /\ toolRuns' = toolRuns
      ]_vars

(***************************************************************************)
(* C13  Every error is surfaced to the caller through onError: when a step *)
(* of the tool's producer throws during the pull loop, onError is called   *)
(* for the session that runs the tool.                                     *)
(***************************************************************************)
C13_ProducerExceptionReported ==
    [][ \A t \in DOMAIN toolRuns :
          toolRuns[t].pc = "pulling" /\ toolRuns'[t].pc = "rejected"
          => /\ Len(calls') = Len(calls) + 1
             /\ calls'[Len(calls')].cb = "onError"
             /\ calls'[Len(calls')].session = toolRuns[t].session
      ]_vars

\* the producer of run kept to its type so far: it yielded display units
\* and, if it is done, returned the terminal pair
YieldsThenReturns(pulled) ==
    \A i \in DOMAIN pulled :
        \/ pulled[i].kind = "yield" /\ IsValidElement(pulled[i].value)
        \/ i = Len(pulled) /\ pulled[i] = Return(Artifact)

\* the display unit a pulled value carries
DisplayUnit(o) == IF o.kind = "return" THEN o.value.component ELSE o.value

\* the chunk notifications of session s that show a display unit, in order
ToolChunks(s) ==
    SelectSeq(calls, LAMBDA c :
        /\ c.cb = "onChunkReceived"
        /\ c.session = s
        /\ \E j \in DOMAIN c.own : IsValidElement(c.own[j]))

\* the assistant message of session s, if it has text
TextMessages(s) ==
    IF TextOf(recv[s]) # "" THEN <<AssistantMessage(TextOf(recv[s]))>> ELSE <<>>

(***************************************************************************)
(* C14  For a producer that yields k display units and then returns the    *)
(* terminal pair {component: D, data: X}: there is one chunk notification  *)
(* per pull, k+1 when the producer is done, after which nothing more is    *)
(* pulled; the i-th shows the display unit of the i-th pull (the most      *)
(* recent one), and the last one ends with D and the function-role message *)
(* whose content is the JSON text of X.                                    *)
(***************************************************************************)
C14_OneChunkPerPull ==
    \A t \in DOMAIN toolRuns :
        LET run == toolRuns[t]
            s == run.session
            n == Len(run.pulled)
            chunks == ToolChunks(s)
        IN  YieldsThenReturns(run.pulled) =>
              /\ Len(chunks) = n
              /\ \A i \in 1..n :
                    chunks[i].own =
                        TextMessages(s)
                        \o <<DisplayUnit(run.pulled[i])>>
                        \o (IF run.pulled[i].kind = "return"
                            THEN <<FunctionMessage("getWeather", "{\"x\":7}")>>
                            ELSE <<>>)
              /\ run.pc = "pulling" <=> (n = 0 \/ run.pulled[n].kind = "yield")

C14_Witness ==
    \E t \in DOMAIN toolRuns :
        /\ toolRuns[t].pulled = <<Yield(Element("Spinner")), Return(Artifact)>>
        /\ toolRuns[t].pc = "polling"
        /\ Len(ToolChunks(toolRuns[t].session)) = 2
        /\ ToolChunks(toolRuns[t].session)[1].own =
              <<AssistantMessage("a"), Element("Spinner")>>
        /\ ToolChunks(toolRuns[t].session)[2].own =
              <<AssistantMessage("a"), Element("Weather"),
                FunctionMessage("getWeather", "{\"x\":7}")>>

(***************************************************************************)
(* C15  The finished flag of every session is monotonic: a session is      *)
(* created with the flag false, and no step (a frame, a step of a tool, an *)
(* event of a child, an error) takes it from true back to false.           *)
(***************************************************************************)
C15_FinishedIsMonotonic ==
    [][ /\ \A s \in DOMAIN sessions :
              /\ s \in DOMAIN sessions'
              /\ sessions[s].finished => sessions'[s].finished
        /\ \A s \in DOMAIN sessions' \ DOMAIN sessions :
              ~sessions'[s].finished
      ]_vars

C15_Witness ==
    /\ recv[1] = <<FinishStop, UnknownFrame, FinishToolCalls, TokenDelta("a")>>
    /\ sessions[1].finished
    /\ Len(calls) = 4

\* a frame with finish_reason 'stop' has reached session s
StopReceived(s) == \E i \in DOMAIN recv[s] : IsFinishStop(recv[s][i])

(***************************************************************************)
(* C16  A session that handled FinishToolCalls is marked finished by the   *)
(* tool path only after the child that tool call started is finished: a    *)
(* tool invocation that has run to its end has a finished child, and a     *)
(* session that is finished without having received FinishStop has such    *)
(* an invocation.                                                          *)
(***************************************************************************)
C16_ParentFinishesAfterChild ==
    /\ \A t \in DOMAIN toolRuns :
          toolRuns[t].pc = "returned" =>
             /\ toolRuns[t].child \in DOMAIN sessions
             /\ sessions[toolRuns[t].child].parent = toolRuns[t].session
             /\ sessions[toolRuns[t].child].finished
    /\ \A s \in DOMAIN sessions :
          sessions[s].finished /\ ~StopReceived(s) =>
             \E t \in DOMAIN toolRuns :
                /\ toolRuns[t].session = s
                /\ toolRuns[t].pc = "returned"

C16_Witness ==
    \E t \in DOMAIN toolRuns :
        /\ toolRuns[t].pc = "returned"
        /\ toolRuns[t].session = 1
        /\ ~StopReceived(1)
        /\ sessions[1].finished
        /\ sessions[toolRuns[t].child].finished

(***************************************************************************)
(* C17  A session is destroyed once it is finished: in every state in      *)
(* which a session's finished flag is true, its transport has been closed. *)
(***************************************************************************)
C17_FinishedImpliesClosed ==
    \A s \in DOMAIN sessions :
        sessions[s].finished => sessions[s].eventSource = "closed"

\* the children of session s that are started and not finished
LiveChildren(s) ==
    {c \in DOMAIN sessions : sessions[c].parent = s /\ ~sessions[c].finished}

\* the invocations of a render capability by session s
Renders(s) == {t \in DOMAIN toolRuns : toolRuns[t].session = s}

(***************************************************************************)
(* C18  Whatever frames its transport delivers, FinishToolCalls more than  *)
(* once or during a tool invocation included, a session has at most one    *)
(* live (started, not finished) child at any moment and invokes a render   *)
(* capability at most once.                                                *)
(***************************************************************************)
C18_OneChildOneRender ==
    \A s \in DOMAIN sessions :
        /\ Cardinality(LiveChildren(s)) <= 1
        /\ Cardinality(Renders(s)) <= 1

\* the part of session s's result that its tool produced so far: the display
\* unit and the function-role message, named by the accumulated tool name
ToolMessages(s) ==
    (IF sessions[s].toolRenderResult # Null
     THEN <<sessions[s].toolRenderResult>>
     ELSE <<>>)
    \o (IF sessions[s].toolCallResult # Null
        THEN <<FunctionMessage(FragmentsOf(recv[s], "name"), "{\"x\":7}")>>
        ELSE <<>>)

(***************************************************************************)
(* C19  Within a session every token-delta frame fires onChunkReceived     *)
(* exactly once, in the step that handles the frame and after the calls    *)
(* made before it; the payload is the whole current result of the session, *)
(* not a diff: for the k-th delta its assistant text is the concatenation  *)
(* of the first k deltas, followed by what the session's tool produced.    *)
(***************************************************************************)
C19_OneChunkPerTokenDelta ==
    [][ \A s \in DOMAIN sessions : \A f \in Frames \cup ChainFrames :
          Delivers(s, f) /\ IsTokenDelta(f) =>
             /\ Len(calls') = Len(calls) + 1
             /\ SubSeq(calls', 1, Len(calls)) = calls
             /\ calls'[Len(calls')].cb = "onChunkReceived"
             /\ calls'[Len(calls')].session = s
             /\ calls'[Len(calls')].own =
                    (IF TextOf(recv'[s]) # ""
                     THEN <<AssistantMessage(TextOf(recv'[s]))>>
                     ELSE <<>>)
                    \o ToolMessages(s)
      ]_vars

C19_Witness ==
    /\ recv[1] = <<TokenDelta("a"), TokenDelta("b"), TokenDelta("a")>>
    /\ Len(calls) = 3
    /\ \A k \in 1..3 : calls[k].cb = "onChunkReceived"
    /\ calls[1].messages = <<AssistantMessage("a")>>
    /\ calls[2].messages = <<AssistantMessage("ab")>>
    /\ calls[3].messages = <<AssistantMessage("aba")>>

\* the producer of run handed over structured data: a pulled value was a
\* {component, data} pair
ProducedData(run) ==
    \E i \in DOMAIN run.pulled : run.pulled[i].value = Artifact

RECURSIVE AncestorsResult(_)
AncestorsResult(s) ==
    IF sessions[s].parent = 0
    THEN <<>>
    ELSE AncestorsResult(sessions[s].parent)
         \o TextMessages(sessions[s].parent)
         \o ToolMessages(sessions[s].parent)

(***************************************************************************)
(* C21  Every chunk and done notification that a child session makes, at   *)
(* any depth, reaches the caller as the results of its ancestors (the      *)
(* outermost first, each as it is at that moment) followed by the child's  *)
(* own messages: all of a parent's messages precede all of its child's,    *)
(* and no child payload arrives without that prefix.                       *)
(***************************************************************************)
C21_ParentPrefixOnChildPayloads ==
    [][ Len(calls') = Len(calls) + 1 =>
          LET c == calls'[Len(calls')] IN
          c.cb \in {"onChunkReceived", "onDone"} =>
             /\ c.session \in DOMAIN sessions
             /\ c.messages = AncestorsResult(c.session) \o c.own
      ]_vars

C21_Witness ==
    \E i \in DOMAIN calls :
        /\ calls[i].cb = "onChunkReceived"
        /\ calls[i].session = 3
        /\ sessions[3].parent = 2 /\ sessions[2].parent = 1
        /\ calls[i].own = <<AssistantMessage("b")>>
        /\ calls[i].messages =
              << AssistantMessage("a"), Element("Weather"),
                 FunctionMessage("getWeather", "{\"x\":7}"),
                 Element("Weather"),
                 FunctionMessage("getWeather", "{\"x\":7}"),
                 AssistantMessage("b") >>

\* the error a session reports for an event that is one
ErrorOf(event) ==
    IF event = EmptyFrame THEN "Empty message received."
    ELSE IF event = UnknownFrame THEN "Unknown message received."
    ELSE event.message

(***************************************************************************)
(* C22  onError is forwarded unchanged through the recursion: an error     *)
(* raised in a session at any depth (an empty frame, a frame of no known   *)
(* shape, a tool call without a name, a connection error or an exception   *)
(* of the transport) calls the caller's onError exactly once, with that    *)
(* session's error as it is, and calls neither onChunkReceived nor onDone. *)
(***************************************************************************)
C22_ErrorForwardedUnchanged ==
    [][ \A s \in DOMAIN sessions :
          /\ \A e \in {EmptyFrame, UnknownFrame, ConnectionError,
                        TransportException} :
                Delivers(s, e) =>
                   calls' = Append(calls, [cb |-> "onError", session |-> s,
                                           error |-> ErrorOf(e)])
          /\ Delivers(s, FinishToolCalls) /\ FragmentsOf(recv[s], "name") = "" =>
                calls' = Append(calls,
                                [cb |-> "onError", session |-> s,
                                 error |-> "Tool call received without a name."])
      ]_vars

C22_Witness ==
    /\ Len(sessions) = 3
    /\ sessions[3].parent = 2 /\ sessions[2].parent = 1
    /\ recv[3] = <<ConnectionError>>
    /\ recv[2] = <<BothDelta("getWeather", "{\"x\":1}"), FinishToolCalls>>
    /\ LastCall = [cb |-> "onError", session |-> 3, error |-> "Connection failed"]
    /\ Cardinality({i \in DOMAIN calls : calls[i].cb = "onError"}) = 1

(***************************************************************************)
(* C23  A report through onError does not stop the stream: a frame of no   *)
(* known shape (no finish reason handled, no text delta, no tool-call      *)
(* delta) makes exactly one onError call, 'Unknown message received.', and *)
(* changes nothing else: the transport stays open and finished, the        *)
(* accumulated text and tool call and the tool runs are as before, so the  *)
(* frames that follow are handled as if it had not arrived.                *)
(***************************************************************************)
C23_UnknownFrameOnlyReports ==
    [][ \A s \in DOMAIN sessions :
          Delivers(s, UnknownFrame) =>
             /\ Calls(ErrorCall(s, "Unknown message received."))
             /\ sessions'[s].eventSource = "open"
             /\ sessions' = sessions
             /\ toolRuns' = toolRuns
      ]_vars

C23_Witness ==
    /\ recv[1] = <<TokenDelta("a"), UnknownFrame, TokenDelta("b"), FinishStop>>
    /\ Len(calls) = 4
    /\ calls[2] = ErrorCall(1, "Unknown message received.")
    /\ calls[3].cb = "onChunkReceived"
    /\ calls[3].messages = <<AssistantMessage("ab")>>
    /\ calls[4].cb = "onDone"
    /\ sessions[1].finished

\* the accumulated tool call of session me fails one of the checks made
\* before the tool is rendered
ValidationFails(me) ==
    \/ me.newToolCall.name = ""
    \/ UnknownTool(me)
    \/ InvalidArguments(me)

IsSubmission == Len(hook'.closures) = Len(hook.closures) + 1

\* what handleSubmit captured for the completion that session s belongs to
SnapshotFor(s) ==
    LET k == CHOOSE k \in DOMAIN hook.closures :
                 hook.closures[k].session = Root(s)
    IN  hook.closures[k].updatedMessages

\* a step reaches the caller when it adds a call to the log
ReachesCaller(cbs) ==
    /\ Len(calls') = Len(calls) + 1
    /\ calls'[Len(calls')].cb \in cbs

(***************************************************************************)
(* C25  In the useChat hook, isLoading becomes true at once when           *)
(* handleSubmit is called and goes back to false only by onDone or         *)
(* onError; isStreaming becomes true on a chunk notification and goes back *)
(* to false by onDone or onError, and changes in no other step; the        *)
(* submitted user message is appended after the messages shown, and every  *)
(* chunk notification sets the messages shown to that submission's         *)
(* snapshot followed by the streamed messages.                             *)
(***************************************************************************)
C25_HookLoadingAndStreaming ==
    [][ /\ IsSubmission =>
              /\ hook'.isLoading
              /\ Len(hook'.messages) = Len(hook.messages) + 1
              /\ SubSeq(hook'.messages, 1, Len(hook.messages)) = hook.messages
              /\ hook'.messages[Len(hook'.messages)].role = "user"
              /\ hook'.closures[Len(hook'.closures)].updatedMessages = hook'.messages
              /\ hook'.isStreaming = hook.isStreaming
        /\ ~IsSubmission => hook'.closures = hook.closures
        /\ (~hook.isLoading /\ hook'.isLoading) => IsSubmission
        /\ (hook.isLoading /\ ~hook'.isLoading) => ReachesCaller({"onDone", "onError"})
        /\ ReachesCaller({"onChunkReceived"}) =>
              /\ hook'.isStreaming
              /\ hook'.isLoading = hook.isLoading
              /\ hook'.messages = SnapshotFor(calls'[Len(calls')].session)
                                     \o calls'[Len(calls')].messages
        /\ ReachesCaller({"onDone", "onError"}) =>
              /\ ~hook'.isStreaming
              /\ ~hook'.isLoading
              /\ hook'.messages = hook.messages
        /\ (~hook.isStreaming /\ hook'.isStreaming) => ReachesCaller({"onChunkReceived"})
        /\ (hook.isStreaming /\ ~hook'.isStreaming) => ReachesCaller({"onDone", "onError"})
      ]_vars

C25_Witness ==
    /\ Len(hook.closures) = 1
    /\ hook.closures[1].updatedMessages =
          <<Element("Banner"), AssistantMessage("welcome"), UserMessage("hi")>>
    /\ calls # <<>>
    /\ LastCall.cb = "onChunkReceived"
    /\ sessions[LastCall.session].parent # 0
    /\ hook.isLoading /\ hook.isStreaming
    /\ hook.messages = hook.closures[1].updatedMessages \o LastCall.messages
    /\ Len(LastCall.messages) = 3
    /\ DoneCalls = {}

\* the accumulators and flags of session s that a frame may touch
SameText(s) == sessions'[s].newMessage = sessions[s].newMessage

SameToolCall(s) == sessions'[s].newToolCall = sessions[s].newToolCall

SameToolResults(s) ==
    /\ sessions'[s].toolCallResult = sessions[s].toolCallResult
    /\ sessions'[s].toolRenderResult = sessions[s].toolRenderResult

SameFinished(s) == sessions'[s].finished = sessions[s].finished

(***************************************************************************)
(* C26  The finish reason is tested before the deltas, and the text delta  *)
(* before the tool-call delta.  A frame with finish reason 'tool_calls'    *)
(* that also carries a tool-call delta starts the tool call and appends    *)
(* nothing; a frame with finish reason 'stop' that also carries text ends  *)
(* the session with the text accumulated before it; a frame with no        *)
(* finish reason, a text delta and a tool-call entry appends the text,     *)
(* notifies, and leaves the accumulated tool call alone.                   *)
(***************************************************************************)
C26_DecodePriority ==
    [][ \A s \in DOMAIN sessions :
          /\ Delivers(s, ToolCallsWithDelta) =>
                LET check == ToolCallCheck(sessions[s]) IN
                /\ sessions' = sessions
                /\ check.kind = "render" =>
                      /\ Len(toolRuns') = Len(toolRuns) + 1
                      /\ toolRuns'[Len(toolRuns')].session = s
                      /\ calls' = calls
                /\ check.kind = "error" =>
                      /\ toolRuns' = toolRuns
                      /\ Calls(ErrorCall(s, check.message))
          /\ Delivers(s, StopWithText) =>
                /\ SameText(s) /\ SameToolCall(s)
                /\ sessions'[s].finished
                /\ Len(calls') = Len(calls) + 1
                /\ calls'[Len(calls')].cb = "onDone"
                /\ calls'[Len(calls')].own = <<AssistantMessage(sessions[s].newMessage)>>
                /\ toolRuns' = toolRuns
          /\ Delivers(s, TextAndCall) =>
                /\ sessions'[s].newMessage = sessions[s].newMessage \o "a"
                /\ SameToolCall(s) /\ SameFinished(s)
                /\ Len(calls') = Len(calls) + 1
                /\ calls'[Len(calls')].cb = "onChunkReceived"
                /\ toolRuns' = toolRuns
      ]_vars

C26_Witness ==
    /\ recv[1] = <<TextAndCall, ToolCallsWithDelta, StopWithText>>
    /\ sessions[1].newMessage = "a"
    /\ sessions[1].newToolCall.name = ""
    /\ sessions[1].finished
    /\ Len(calls) = 3
    /\ calls[2] = ErrorCall(1, "Tool call received without a name.")
    /\ LastCall.cb = "onDone"

(***************************************************************************)
(* C27  A chunk whose choices are empty or absent changes nothing and      *)
(* reaches no callback: no onChunkReceived, onDone or onError, and the     *)
(* accumulated text, the accumulated tool call, the tool results and the   *)
(* finished flag of every session stay as they are.                        *)
(***************************************************************************)
C27_NoChoicesIsNoOp ==
    [][ \A s \in DOMAIN sessions :
          (Delivers(s, NoChoices) \/ Delivers(s, AbsentChoices)) =>
              /\ calls' = calls
              /\ sessions' = sessions
              /\ toolRuns' = toolRuns
      ]_vars

C27_Witness ==
    /\ recv[1] = <<TokenDelta("a"), NoChoices, AbsentChoices>>
    /\ Len(calls) = 1
    /\ sessions[1].newMessage = "a"
    /\ ~sessions[1].finished

(***************************************************************************)
(* C28  A tool-call delta with no text and no finish reason only appends   *)
(* its name and arguments fragments to the accumulated tool call: no       *)
(* callback is called, and the accumulated text, the tool results and the  *)
(* finished flag stay as they are.  An entry with neither fragment appends *)
(* nothing.                                                                *)
(***************************************************************************)
C28_ToolCallDeltaIsSilent ==
    [][ \A s \in DOMAIN sessions :
          \A f \in {NameDelta("get"), BothDelta("getWeather", "{\"x\":1}"), BareCall} :
             Delivers(s, f) =>
                /\ calls' = calls
                /\ toolRuns' = toolRuns
                /\ SameText(s) /\ SameToolResults(s) /\ SameFinished(s)
                /\ sessions'[s].newToolCall.name =
                      sessions[s].newToolCall.name \o Fragment(f, "name")
                /\ sessions'[s].newToolCall.arguments =
                      sessions[s].newToolCall.arguments \o Fragment(f, "arguments")
                /\ f = BareCall => SameToolCall(s)
                /\ \A o \in DOMAIN sessions \ {s} : sessions'[o] = sessions[o]
      ]_vars

C28_Witness ==
    /\ recv[1] = <<TokenDelta("a"), BareCall, BothDelta("getWeather", "{\"x\":1}")>>
    /\ Len(calls) = 1
    /\ sessions[1].newMessage = "a"
    /\ sessions[1].newToolCall = [name |-> "getWeather", arguments |-> "{\"x\":1}"]

\* what the producer of session s has handed over, given the runs: the
\* values pulled so far that carry something to show
Shown(s, runs) ==
    IF \E t \in DOMAIN runs : runs[t].session = s
    THEN LET t == CHOOSE t \in DOMAIN runs : runs[t].session = s
         IN  SelectSeq(runs[t].pulled, LAMBDA o :
                 o.kind # "throw" /\ (IsValidElement(o.value) \/ o.value = Artifact))
    ELSE <<>>

\* the SessionResult of session s by the history of the session: the frames
\* it received and the values its producer handed over
ResultByHistory(s, frames, runs) ==
    LET text == TextOf(frames)
        shown == Shown(s, runs)
        pairs == SelectSeq(shown, LAMBDA o : o.value = Artifact)
        last == shown[Len(shown)]
    IN  (IF text # "" THEN <<AssistantMessage(text)>> ELSE <<>>)
        \o (IF shown # <<>>
            THEN <<IF last.value = Artifact THEN Artifact.component ELSE last.value>>
            ELSE <<>>)
        \o (IF pairs # <<>>
            THEN <<FunctionMessage(FragmentsOf(frames, "name"), "{\"x\":7}")>>
            ELSE <<>>)

ChildStopped(t) ==
    /\ t \in DOMAIN toolRuns
    /\ toolRuns[t].child # 0
    /\ StopReceived(toolRuns[t].child)

\* the session of run t is finished and the caller has had its onDone
ParentDone(t) ==
    /\ t \in DOMAIN toolRuns
    /\ sessions[toolRuns[t].session].finished
    /\ \E i \in DOMAIN calls :
          calls[i].cb = "onDone" /\ calls[i].session = toolRuns[t].child

(***************************************************************************)
(* C30  When a session's stream ended in FinishToolCalls for a declared    *)
(* tool with valid arguments, the producer came to its end and the child's *)
(* stream has delivered FinishStop, then, the poll loop being scheduled    *)
(* fairly, the session eventually is finished and the caller's onDone has  *)
(* been delivered.                                                         *)
(***************************************************************************)
C30_ParentEventuallyDone ==
    \A t \in Runs : ChildStopped(t) ~> ParentDone(t)

C30_Witness ==
    /\ ChildStopped(1) /\ ParentDone(1)
    /\ toolRuns[1].pc = "returned"
    /\ toolRuns[1].session = 1
    /\ sessions[1].finished /\ sessions[2].finished
    /\ LastCall.cb = "onDone"

\* how many sessions lie above session s in its chain
RECURSIVE Depth(_)
Depth(s) == IF sessions[s].parent = 0 THEN 0 ELSE 1 + Depth(sessions[s].parent)

\* so far the model has answered with tool calls only: no session has
\* received a stop frame
OnlyToolCalls == \A s \in DOMAIN sessions : ~StopReceived(s)

(***************************************************************************)
(* C31  Nothing limits the depth of the recursion.  At whatever depth a    *)
(* session stands, the end of its tool's producer starts a child one level *)
(* deeper; and as long as the model answers with tool calls only, no       *)
(* session of the chain is finished and the caller's onDone is not called. *)
(***************************************************************************)
C31_NoDepthLimit ==
    [][ /\ \A t \in DOMAIN toolRuns :
              ( /\ toolRuns[t].pc = "pulling"
                /\ Len(toolRuns'[t].pulled) = Len(toolRuns[t].pulled) + 1
                /\ toolRuns'[t].pulled[Len(toolRuns'[t].pulled)].kind = "return" )
              => /\ Len(sessions') = Len(sessions) + 1
                 /\ sessions'[Len(sessions')].parent = toolRuns[t].session
                 /\ ~sessions'[Len(sessions')].finished
                 /\ sessions'[Len(sessions')].eventSource = "open"
                 /\ toolRuns'[t].pc = "polling"
        /\ OnlyToolCalls' =>
              /\ \A s \in DOMAIN sessions' : ~sessions'[s].finished
              /\ \A i \in DOMAIN calls' : calls'[i].cb # "onDone"
      ]_vars

C31_Witness ==
    /\ OnlyToolCalls
    /\ \E s \in DOMAIN sessions : Depth(s) = 3
    /\ \A s \in DOMAIN sessions : ~sessions[s].finished
    /\ DoneCalls = {}
    /\ Len(toolRuns) = 3

\* session d is session s or a continuation below it, so that d's onDone
\* goes through the callbacks s holds
RECURSIVE Within(_, _)
Within(d, s) ==
    \/ d = s
    \/ sessions[d].parent # 0 /\ Within(sessions[d].parent, s)

\* the callbacks of session s have received onDone
OnDoneReached(s) ==
    \E i \in DOMAIN calls :
        calls[i].cb = "onDone" /\ Within(calls[i].session, s)

(***************************************************************************)
(* C32  Whenever a session's finished flag is true, the callbacks of that  *)
(* session have already received onDone: its own on the stop path, the     *)
(* one its child forwarded on the tool path.                               *)
(***************************************************************************)
C32_FinishedAfterOnDone ==
    \A s \in DOMAIN sessions : sessions[s].finished => OnDoneReached(s)

C32_Witness ==
    /\ Len(sessions) >= 2
    /\ sessions[1].finished
    /\ sessions[2].parent = 1
    /\ \E t \in DOMAIN toolRuns :
          toolRuns[t].session = 1 /\ toolRuns[t].pc = "returned"
    /\ ~StopReceived(1)
    /\ \A i \in DOMAIN calls : calls[i].cb = "onDone" => calls[i].session = 2
    /\ DoneCalls # {}

\* a tool call of session c is still under way
Active(c) ==
    \E t \in DOMAIN toolRuns :
        toolRuns[t].session = c /\ toolRuns[t].pc \in {"pulling", "polling"}

\* session c has come to nothing: it is not finished, no tool call of it is
\* under way, and its stream is over (the transport is closed, or the one
\* finish frame has been a tool call that failed its checks or whose
\* producer threw)
Aborted(c) ==
    /\ ~sessions[c].finished
    /\ ~Active(c)
    /\ sessions[c].eventSource = "closed" \/ Finishing(c)

\* while the child of a tool run is not finished, the run is in its wait
\* loop and neither its session nor any session above it is finished
WaitsOnChild ==
    \A t \in DOMAIN toolRuns :
        (toolRuns[t].child # 0 /\ ~sessions[toolRuns[t].child].finished) =>
            /\ toolRuns[t].pc = "polling"
            /\ \A a \in DOMAIN sessions :
                  Within(toolRuns[t].session, a) => ~sessions[a].finished

\* some child has come to nothing
SomeChildAborted ==
    \E t \in DOMAIN toolRuns : toolRuns[t].child # 0 /\ Aborted(toolRuns[t].child)

ForwardedBy(p) ==
    /\ Len(calls') = Len(calls) + 1
    /\ calls'[Len(calls')].cb \in {"onChunkReceived", "onDone"}
    /\ sessions[calls'[Len(calls')].session].parent = p

(***************************************************************************)
(* C34  The message handler looks neither at the finished flag nor at the  *)
(* state of the tool call.  A token delta that reaches a session that is   *)
(* finished, or whose tool call or child is under way, is appended to the  *)
(* text and notified like any other; a stop frame that reaches a finished  *)
(* session calls onDone again.  So what a parent puts in front of its      *)
(* child's notifications starts with the parent's text as it is when the   *)
(* notification is forwarded, not as it was when the child was started.    *)
(***************************************************************************)
C34_HandlerIgnoresSessionState ==
    [][ \A s \in DOMAIN sessions :
          /\ ( /\ Delivers(s, TokenDelta("a"))
               /\ sessions[s].finished \/ Active(s) )
             => /\ sessions'[s].newMessage = sessions[s].newMessage \o "a"
                /\ Len(calls') = Len(calls) + 1
                /\ calls'[Len(calls')].cb = "onChunkReceived"
                /\ calls'[Len(calls')].session = s
                /\ calls'[Len(calls')].own[1] = AssistantMessage(sessions'[s].newMessage)
          /\ (Delivers(s, FinishStop) /\ sessions[s].finished)
             => /\ Len(calls') = Len(calls) + 1
                /\ calls'[Len(calls')].cb = "onDone"
                /\ calls'[Len(calls')].session = s
          /\ (sessions[s].parent = 0 /\ ForwardedBy(s) /\ sessions[s].newMessage # "")
             => calls'[Len(calls')].messages[1] = AssistantMessage(sessions[s].newMessage)
      ]_vars

C34_Witness ==
    /\ Len(sessions) = 2
    /\ recv[1] = <<BothDelta("getWeather", "{\"x\":1}"), FinishToolCalls, TokenDelta("a")>>
    /\ recv[2] = <<TokenDelta("a")>>
    /\ sessions[2].params.messages =
          <<UserMessage("hi"), FunctionMessage("getWeather", "{\"x\":7}")>>
    /\ LastCall.session = 2
    /\ LastCall.messages =
          <<AssistantMessage("a"), Element("Weather"),
            FunctionMessage("getWeather", "{\"x\":7}"), AssistantMessage("a")>>

\* the value has the shape of the terminal pair
HasShape(v) == "data" \in DOMAIN v /\ "component" \in DOMAIN v

\* this step pulls the outcome o from the producer of run t
Pulls(t, o) ==
    /\ Len(toolRuns'[t].pulled) = Len(toolRuns[t].pulled) + 1
    /\ toolRuns'[t].pulled[Len(toolRuns'[t].pulled)] = o

\* what the request of the child of run t adds to the request of its parent
AddedToRequest(t) ==
    LET own == sessions'[toolRuns[t].session].params.messages
        child == sessions'[toolRuns'[t].child].params.messages
    IN  SubSeq(child, Len(own) + 1, Len(child))

IsWireMessage(m) ==
    /\ ~("typeof" \in DOMAIN m)
    /\ "role" \in DOMAIN m
    /\ "content" \in DOMAIN m
    /\ m.role \in {"user", "assistant", "function"}

(***************************************************************************)
(* C36  No request holds a display unit.  For every session, started by    *)
(* handleSubmit or by the continuation after a tool call, every element of *)
(* the request's message list is a role/content message and none is a      *)
(* React element, whatever was submitted and whatever the tools showed.     *)
(***************************************************************************)
C36_RequestsHoldNoDisplayUnit ==
    \A s \in DOMAIN sessions :
        \A i \in DOMAIN sessions[s].params.messages :
            IsWireMessage(sessions[s].params.messages[i])

C36_Witness ==
    /\ Len(hook.closures) = 2
    /\ hook.closures[2].updatedMessages =
          <<Element("Banner"), AssistantMessage("welcome"), UserMessage("hi"),
            Element("Weather"), FunctionMessage("getWeather", "{\"x\":7}"),
            UserMessage("hi")>>
    /\ sessions[hook.closures[2].session].params.messages =
          <<AssistantMessage("welcome"), UserMessage("hi"),
            FunctionMessage("getWeather", "{\"x\":7}"), UserMessage("hi")>>
    /\ \E s \in DOMAIN sessions :
          /\ sessions[s].parent = 1
          /\ sessions[s].params.messages =
                <<AssistantMessage("welcome"), UserMessage("hi"),
                  FunctionMessage("getWeather", "{\"x\":7}")>>

\* a completion other than the one session s belongs to is still running
OtherInFlight(s) ==
    \E r \in DOMAIN sessions :
        /\ sessions[r].parent = 0
        /\ r # Root(s)
        /\ ~sessions[r].finished

(***************************************************************************)
(* C37  handleSubmit does not wait for an earlier completion.  It can be   *)
(* called while the hook is loading, and then starts a completion beside   *)
(* the ones that run, which it leaves as they are.  With another           *)
(* completion in flight, a chunk notification sets the messages shown to   *)
(* the snapshot of its own submission followed by its own stream, whatever *)
(* the other had put there, and an onDone or onError of either completion  *)
(* sets isLoading and isStreaming to false.                                *)
(***************************************************************************)
C37_SubmissionsOverlap ==
    [][ /\ ENABLED HandleSubmit("hi")
        /\ (IsSubmission /\ hook.isLoading) =>
              /\ Len(sessions') = Len(sessions) + 1
              /\ SubSeq(sessions', 1, Len(sessions)) = sessions
              /\ sessions'[Len(sessions')].parent = 0
              /\ sessions'[Len(sessions')].eventSource = "open"
              /\ hook'.isLoading
        /\ \A s \in DOMAIN sessions :
              ( /\ Len(calls') = Len(calls) + 1
                /\ calls'[Len(calls')].session = s
                /\ OtherInFlight(s) )
              => LET c == calls'[Len(calls')] IN
                 /\ c.cb = "onChunkReceived" =>
                       hook'.messages = SnapshotFor(s) \o c.messages
                 /\ c.cb \in {"onDone", "onError"} =>
                       ~hook'.isLoading /\ ~hook'.isStreaming
      ]_vars

C37_Witness ==
    /\ Len(hook.closures) = 2
    /\ recv = << <<TokenDelta("a"), FinishStop>>, <<TokenDelta("a")>> >>
    /\ calls[2].session = 2
    /\ LastCall.cb = "onDone" /\ LastCall.session = 1
    /\ ~sessions[2].finished /\ sessions[2].eventSource = "open"
    /\ ~hook.isLoading /\ ~hook.isStreaming
    /\ hook.messages = <<UserMessage("hi"), UserMessage("hi"), AssistantMessage("a")>>

====
